---- MODULE Spec2Model ----
(***************************************************************************)
(* Model of the ALPACA LNA bias system: the channel router and the         *)
(* convergence loops of ALPACABias.py (set_iLNA, set_vLNA) and the board   *)
(* controller of BiasBoardControl.py (BiasBoard).                          *)
(*                                                                         *)
(* Measured values are exact rationals num/den instead of floats: a        *)
(* current reading is (sum of 6 raw samples) / (6 * 10 * divider) mA, a    *)
(* bus-voltage reading is (sum of 6 samples in mV) / 6000 V.  Targets are  *)
(* rationals [n, d] as well.                                               *)
(*                                                                         *)
(* Line 201 of ALPACABias.py carries an unbalanced ")"; it is read as      *)
(* "return boards[boardnum - 1], boardchan".                               *)
(***************************************************************************)
EXTENDS Integers, Sequences, FiniteSets, TLC

VARIABLES
    store,      \* the persisted snapshot: NoSnapshot or [1..18 -> board record]
    hw,         \* the devices: per board the last 16 bits written to the
                \* I/O expander and the 8 RDAC wiper registers
    boards,     \* the list `boards` of the running call (ALPACABias.py:58)
    curve,      \* the response of the amplifiers to the wiper (environment)
    pc,         \* "idle" between calls, "entered", "loop" inside the while loop
    op,         \* "i" (set_iLNA) or "v" (set_vLNA)
    chan,       \* the channel argument of the call
    tgt,        \* the target argument of the call, [n |-> , d |-> ]
    i,          \* the loop counter i
    wiperpos,   \* the local wiperpos
    wiper0,     \* wiperpos as read at line 65 / 121
    val,        \* the last averaged sensor reading, [n |-> , d |-> ]
    outcome,    \* how the last call ended
    ret,        \* what the last call handed back to its caller
    retOf,      \* history: outcome -> the set of results handed back with it
    nreads,     \* averaged sensor reads of this call
    nwrites,    \* wiper writes of this call inside the loop
    saved,      \* save_boards_state calls of this call
    calls,      \* calls made so far
    ntxn,       \* device transactions issued by this call
    hw0,        \* history: the devices as the call found them
    dev0,       \* history: the device wiper of the channel when line 65 / 121
                \* read the cached one
    gate,       \* the boards whose repeater is connected
    bpc,        \* position of the board-level operation in progress
    bop,        \* the board-level operation in progress
    bfds,       \* the device handles it holds open
    bused,      \* transactions issued so far by the operation
    overlap,    \* a device transaction met a gate state other than {its board}
    bcount,     \* board-level operations started so far
    lastpot,    \* history: board, pot, wiper -> the value of the last set_pot
                \* call that passed its assertions (0 if none)
    callers,    \* two callers: each one's position, operation and count
    rchan,      \* router: the channel handed to __getboard
    rres,       \* router: what __getboard returned for it
    rprev,      \* router: the call of __getboard before, [chan, res]
    ipc,        \* construction: the statement of BiasBoard.__init__ to run next
    iaddr,      \* construction: the address of the board under construction
    ij,         \* construction: the loop variable j, then the place in zero_pots
    iobj,       \* construction: the board object and its devices, [bd, hw]
    ilog        \* construction: the device operations issued so far, in order

vars == <<store, hw, boards, curve, pc, op, chan, tgt, i, wiperpos, wiper0,
          val, outcome, ret, retOf, nreads, nwrites, saved, calls, ntxn, hw0, dev0,
          gate, bpc, bop, bfds, bused, overlap, bcount, lastpot, rchan, rres, rprev,
          ipc, iaddr, ij, iobj, ilog, callers>>

engineVars == <<store, hw, boards, curve, pc, op, chan, tgt, i, wiperpos,
                wiper0, val, outcome, ret, retOf, nreads, nwrites, saved,
                calls, ntxn, hw0, dev0>>
busVars == <<gate, bpc, bop, bfds, bused, overlap, bcount, lastpot>>
routerVars == <<rchan, rres, rprev>>
initVars == <<ipc, iaddr, ij, iobj, ilog>>
twoVars == <<callers>>

(***************************************************************************)
(* Bounds and program constants                                            *)
(***************************************************************************)
MaxCalls == 2

ITOLERANCE_INV == 20
VTOLERANCE_INV == 20
MAXITER == 256
CURRENT_DIVIDER_X10 == 27
NBOARDS == 18
NCHAN == 8
NAVG == 6
IFAULT == 1000
VFAULT == 3
WIPERMAX == 255

Abs(x) == IF x < 0 THEN -x ELSE x

RECURSIVE Pow2(_)
Pow2(n) == IF n = 0 THEN 1 ELSE 2 * Pow2(n - 1)

Bit(p, n) == (p \div Pow2(n)) % 2

Rat(n, d) == [n |-> n, d |-> d]

(***************************************************************************)
(* Channel router                                                          *)
(***************************************************************************)
ChannelOk(channel) == channel >= 1 /\ channel <= 144

Boardnum_Floor(channel) == (channel \div 8) + 1

\* math.ceil(channel / 8)
Boardnum(channel) == (channel + 7) \div 8

Boardchan(channel) == ((channel - 1) % 8) + 1

Potnum(ch) == IF ch <= 4 THEN 1 ELSE 2

Wipernum(ch) == IF ch <= 4 THEN ch ELSE ch - 4

\* __getboard: the assertion, then (boards[boardnum - 1], boardchan); the
\* board is named by its place in the list, which is its address
getboard(channel) ==
    IF ChannelOk(channel)
    THEN [ok |-> TRUE, board |-> Boardnum(channel), ch |-> Boardchan(channel)]
    ELSE [ok |-> FALSE, board |-> 0, ch |-> 0]

(***************************************************************************)
(* BiasBoard: the cached state of a board object and the devices behind    *)
(* it.  The operations take and return a pair s = [bd |-> cache, hw |->    *)
(* devices] of one board.                                                  *)
(***************************************************************************)
HIGH == TRUE
LOW == FALSE

\* self.pinstate, self.pot1, self.pot2 and the divider as __init__ and
\* init_currsense leave them before the startup procedure
FreshCache(div10) ==
    [pinstate |-> 0, pot1 |-> <<0, 0, 0, 0>>, pot2 |-> <<0, 0, 0, 0>>,
     divider10 |-> div10]

OrBit_Keep(p, pin) == p

\* p | (1 << pin)
OrBit(p, pin) == IF Bit(p, pin) = 1 THEN p ELSE p + Pow2(pin)

AndNotBit_Keep(p, pin) == p

\* p & (~(1 << pin))
AndNotBit(p, pin) == IF Bit(p, pin) = 1 THEN p - Pow2(pin) ELSE p

\* write16(iox, p & 0xFF, (p & 0xFF00) >> 8): the two bytes the expander latches
IoxWord(p) == (p % 256) + 256 * ((p \div 256) % 256)

PinOk(pin) == pin >= 0 /\ pin <= 16

set_ioexpander(s, pin, state) ==
    LET p == IF state THEN OrBit(s.bd.pinstate, pin)
                      ELSE AndNotBit(s.bd.pinstate, pin)
    IN  [bd |-> [s.bd EXCEPT !.pinstate = p],
         hw |-> [s.hw EXCEPT !.iox = IoxWord(p)]]

zero_ioexpander(s) ==
    [bd |-> [s.bd EXCEPT !.pinstate = 0], hw |-> [s.hw EXCEPT !.iox = 0]]

PotArgsOk_NoValue(pot, wiper, value) ==
    /\ wiper > 0 /\ wiper <= 4
    /\ pot = 1 \/ pot = 2

PotArgsOk(pot, wiper, value) ==
    /\ wiper > 0 /\ wiper <= 4
    /\ pot = 1 \/ pot = 2
    /\ value >= 0 /\ value <= 255

set_pot_CacheOnly(s, pot, wiper, value) ==
    IF pot = 2
    THEN [bd |-> [s.bd EXCEPT !.pot2[wiper] = value], hw |-> s.hw]
    ELSE [bd |-> [s.bd EXCEPT !.pot1[wiper] = value], hw |-> s.hw]

\* the cache is written first, then write8(pot, AD5144_CMD_WRITE_RDAC + wiper, value)
set_pot(s, pot, wiper, value) ==
    IF pot = 2
    THEN [bd |-> [s.bd EXCEPT !.pot2[wiper] = value],
          hw |-> [s.hw EXCEPT !.rdac2[wiper] = value]]
    ELSE [bd |-> [s.bd EXCEPT !.pot1[wiper] = value],
          hw |-> [s.hw EXCEPT !.rdac1[wiper] = value]]

get_pot_Swapped(bd, pot, wiper) == IF pot = 2 THEN bd.pot1[wiper] ELSE bd.pot2[wiper]

get_pot(bd, pot, wiper) == IF pot = 2 THEN bd.pot2[wiper] ELSE bd.pot1[wiper]

zero_pots(s) ==
    LET a == set_pot(s, 1, 1, 0)
        b == set_pot(a, 1, 2, 0)
        c == set_pot(b, 1, 3, 0)
        d == set_pot(c, 1, 4, 0)
        e == set_pot(d, 2, 1, 0)
        f == set_pot(e, 2, 2, 0)
        g == set_pot(f, 2, 3, 0)
    IN  set_pot(g, 2, 4, 0)

\* the calibration and configuration writes change none of the modelled
\* registers; the divider is kept on the object
init_currsense(s, ch, div10) == [s EXCEPT !.bd.divider10 = div10]

RECURSIVE InitChannels(_, _, _)
InitChannels(s, j, div10) ==
    IF j > NCHAN THEN s
    ELSE InitChannels(set_ioexpander(init_currsense(s, j, div10), j, HIGH),
                      j + 1, div10)

\* BiasBoard.__init__: the startup procedure on the devices h of the board
BiasBoardInit(h, div10) ==
    LET s0 == [bd |-> FreshCache(div10), hw |-> h]
        s1 == zero_ioexpander(s0)
        s2 == set_ioexpander(s1, 0, HIGH)
        s3 == InitChannels(s2, 1, div10)
    IN  zero_pots(s3)

\* the device transactions of a method between __start() and __end()
TxnCount(k) ==
    CASE k = "init_currsense"      -> 2
      [] k = "getCurrent_raw"      -> 2
      [] k = "getBusVoltage_raw"   -> 2
      [] OTHER                     -> 1

\* the n-th device transaction of a method: what it does to which register
Txn(k, n) ==
    CASE k = "init_currsense" ->
             IF n = 1 THEN [rw |-> "write", reg |-> "CALIBRATION"]
                      ELSE [rw |-> "write", reg |-> "CONFIG"]
      [] k = "getCurrent_raw" ->
             IF n = 1 THEN [rw |-> "write", reg |-> "CALIBRATION"]
                      ELSE [rw |-> "read", reg |-> "CURRENT"]
      [] k = "getBusVoltage_raw" ->
             IF n = 1 THEN [rw |-> "write", reg |-> "CALIBRATION"]
                      ELSE [rw |-> "read", reg |-> "BUSVOLTAGE"]
      [] k = "getShuntVoltage_raw" -> [rw |-> "read", reg |-> "SHUNTVOLTAGE"]
      [] k = "set_pot" -> [rw |-> "write", reg |-> "RDAC"]
      [] OTHER -> [rw |-> "write", reg |-> "PORTS"]

\* the device transactions of BiasBoard.__init__
InitTxns ==
    TxnCount("zero_ioexpander") + TxnCount("set_ioexpander")
    + NCHAN * (TxnCount("init_currsense") + TxnCount("set_ioexpander"))
    + 8 * TxnCount("set_pot")

\* the device transactions of get_current / get_bus: navg raw reads
ReadTxns(o) ==
    NAVG * (IF o = "i" THEN TxnCount("getCurrent_raw") ELSE TxnCount("getBusVoltage_raw"))

(***************************************************************************)
(* The sensors.  The environment is a response curve: the level (0..255)   *)
(* an amplifier shows at a wiper position, or Open for a disconnected      *)
(* channel, which reads full scale.                                        *)
(***************************************************************************)
StepAt == 3
KneeAt == 3

Curves == {"lin", "inv", "step", "knee", "open"}

IsOpen(c, w) == c = "open" \/ (c = "knee" /\ w >= KneeAt)

Level(c, w) ==
    CASE c = "lin"  -> w
      [] c = "inv"  -> WIPERMAX - w
      [] c = "step" -> IF w < StepAt THEN 0 ELSE WIPERMAX
      [] OTHER      -> w

\* the INA219 registers, MSB first; the low 3 bits of the bus-voltage
\* register are status bits
RegCurrent(c, w) == IF IsOpen(c, w) THEN 65535 ELSE 11 * Level(c, w)

RegBusVoltage(c, w) == IF IsOpen(c, w) THEN 65535 ELSE (2 * Level(c, w)) * 8 + 2

\* wiringPiI2CReadReg16 hands the two bytes over in the bus's order
read16(reg) == (reg % 256) * 256 + (reg \div 256)

MSBF(v) == ((v % 256) * 256) + ((v \div 256) % 256)

HwWiper(h, ch) ==
    IF Potnum(ch) = 2 THEN h.rdac2[Wipernum(ch)] ELSE h.rdac1[Wipernum(ch)]

ina_getCurrent_raw(h, ch, c) == MSBF(read16(RegCurrent(c, HwWiper(h, ch))))

ina_getBusVoltage_raw(h, ch, c) ==
    (MSBF(read16(RegBusVoltage(c, HwWiper(h, ch)))) \div 8) * 4

\* np.average of navg samples of raw / (10 * divider): sum / (navg * 10 * divider)
get_current(s, ch, c) ==
    Rat(NAVG * ina_getCurrent_raw(s.hw, ch, c), NAVG * s.bd.divider10)

\* np.average of navg samples of raw * 0.001
get_bus(s, ch, c) == Rat(NAVG * ina_getBusVoltage_raw(s.hw, ch, c), NAVG * 1000)

(***************************************************************************)
(* The snapshot store.  BiasBoard.load_all_states / save_all_states are    *)
(* called by ALPACABias.py and defined in no file of src/; they are        *)
(* modelled from the specification: the snapshot holds every board's       *)
(* power-gate register, wipers and divider, and loads back as saved.       *)
(***************************************************************************)
NoSnapshot == <<>>

\* the devices of the 18 boards before the first board object is constructed
PowerOnDevices ==
    [b \in 1 .. NBOARDS |->
        [iox |-> 0, rdac1 |-> <<0, 0, 0, 0>>, rdac2 |-> <<0, 0, 0, 0>>]]

load_all_states(st) == st

save_all_states(bs) == bs

Boards == 1 .. NBOARDS

\* [bc.BiasBoard(addr, CURRENT_DIVIDER) for addr in range(1, 19)]: the list
\* of the first n boards, each constructed on its devices h[addr]
RECURSIVE ConstructBoards(_, _)
ConstructBoards(h, n) ==
    IF n = 0 THEN [boards |-> <<>>, hw |-> <<>>]
    ELSE LET rest == ConstructBoards(h, n - 1)
             s == BiasBoardInit(h[n], CURRENT_DIVIDER_X10)
         IN  [boards |-> Append(rest.boards, s.bd), hw |-> Append(rest.hw, s.hw)]

\* initialize_boards: the saved boards, or 18 new ones when there are none
initialize_boards(st, h) ==
    IF load_all_states(st) = NoSnapshot
    THEN ConstructBoards(h, NBOARDS)
    ELSE [boards |-> load_all_states(st), hw |-> h]

\* the device transactions initialize_boards issues
initialize_txns(st) == IF load_all_states(st) = NoSnapshot THEN NBOARDS * InitTxns ELSE 0

(***************************************************************************)
(* The convergence loop of set_iLNA / set_vLNA                             *)
(***************************************************************************)
\* i > MAXITER
TimedOut(n) == n > MAXITER

IsFault_Swapped(o, v) == IF o = "i" THEN v.n >= VFAULT * v.d ELSE v.n >= IFAULT * v.d

IsFault_Low(o, v) == IF o = "i" THEN v.n >= 100 * v.d ELSE v.n >= VFAULT * v.d

\* val >= 1000.0 (set_iLNA), val >= 3.0 (set_vLNA)
IsFault(o, v) == IF o = "i" THEN v.n >= IFAULT * v.d ELSE v.n >= VFAULT * v.d

ToleranceInv(o) == IF o = "i" THEN ITOLERANCE_INV ELSE VTOLERANCE_INV

\* diff = abs(val - target) / target; diff < TOLERANCE
WithinTolerance_Loose(o, v, t) ==
    IF t.n > 0
    THEN 2 * Abs(v.n * t.d - t.n * v.d) < v.d * t.n
    ELSE TRUE

WithinTolerance(o, v, t) ==
    IF t.n > 0
    THEN ToleranceInv(o) * Abs(v.n * t.d - t.n * v.d) < v.d * t.n
    ELSE TRUE

Below_Inverted(v, t) == v.n * t.d > t.n * v.d

\* val < target
Below(v, t) == v.n * t.d < t.n * v.d

AtCeiling_Early(w) == w >= WIPERMAX - 1

AtCeiling(w) == w >= WIPERMAX

AtFloor(w) == w <= 0

Measure(o, s, ch, c) == IF o = "i" THEN get_current(s, ch, c) ELSE get_bus(s, ch, c)

\* the results a call hands back: every return of set_iLNA / set_vLNA is a
\* bare return or the end of the function
Returned(out) ==
    CASE out = "assertion" -> "AssertionError"
      [] out = "typeerror" -> "TypeError"
      [] out = "read"      -> "value"
      [] OTHER             -> "None"

Outcomes == {"off", "converged", "fault", "unreachable", "timeout", "assertion",
             "typeerror", "read"}

Chans == {1, 73, 144}
BadChans == {0, 145}
ITargets == {Rat(0, 1), Rat(50, 1), Rat(110, 1), Rat(-5, 1)}
VTargets == {Rat(0, 1), Rat(5, 10)}
Targets(o) == IF o = "i" THEN ITargets ELSE VTargets
BadChannelTargets == {Rat(1, 1)}

BoardOf(bs, h, c) == [bd |-> bs[Boardnum(c)], hw |-> h[Boardnum(c)]]

Return(out) ==
    /\ pc' = "idle"
    /\ outcome' = out
    /\ ret' = Returned(out)
    /\ retOf' = [retOf EXCEPT ![out] = @ \cup {Returned(out)}]

\* line 58 / 114, the first statement of set_iLNA and of set_vLNA:
\* boards = initialize_boards()
CallEnter ==
    /\ pc = "idle" /\ calls < MaxCalls
    /\ LET ib == initialize_boards(store, hw)
       IN  /\ boards' = ib.boards
           /\ hw' = ib.hw
    /\ pc' = "entered"
    /\ calls' = calls + 1
    /\ outcome' = "none" /\ ret' = "none"
    /\ i' = 0 /\ wiperpos' = 0 /\ wiper0' = 0 /\ val' = Rat(0, 1)
    /\ nreads' = 0 /\ nwrites' = 0 /\ saved' = 0
    /\ ntxn' = initialize_txns(store)
    /\ hw0' = hw /\ dev0' = 0
    /\ UNCHANGED <<store, curve, retOf, op, chan, tgt>>

\* line 59 / 115: __getboard's assertion fails
CallBadChannel(o, c, t) ==
    /\ pc = "entered"
    /\ ~ChannelOk(c)
    /\ op' = o /\ chan' = c /\ tgt' = t
    /\ Return("assertion")
    /\ UNCHANGED <<store, curve, boards, hw, i, wiperpos, wiper0, val,
                   nreads, nwrites, saved, calls, ntxn, hw0, dev0>>

\* lines 59-70 / 115-127: target 0 switches the channel off
CallZero(o, c, t) ==
    /\ pc = "entered"
    /\ ChannelOk(c)
    /\ t.n = 0
    /\ LET ch == Boardchan(c)
           s0 == BoardOf(boards, hw, c)
           s1 == set_ioexpander(s0, ch, LOW)
           s2 == set_pot(s1, Potnum(ch), Wipernum(ch), 0)
           bs == [boards EXCEPT ![Boardnum(c)] = s2.bd]
       IN  /\ boards' = bs
           /\ hw' = [hw EXCEPT ![Boardnum(c)] = s2.hw]
           /\ store' = save_all_states(bs)
           /\ wiperpos' = get_pot(s0.bd, Potnum(ch), Wipernum(ch))
           /\ wiper0' = get_pot(s0.bd, Potnum(ch), Wipernum(ch))
           /\ dev0' = HwWiper(s0.hw, ch)
    /\ op' = o /\ chan' = c /\ tgt' = t
    /\ saved' = 1
    /\ ntxn' = ntxn + TxnCount("set_ioexpander") + TxnCount("set_pot")
    /\ Return("off")
    /\ UNCHANGED <<curve, i, val, nreads, nwrites, calls, hw0>>

\* lines 59-72 / 115-129: a non-zero target powers the channel and enters
\* the loop
CallStart(o, c, t) ==
    /\ pc = "entered"
    /\ ChannelOk(c)
    /\ t.n # 0
    /\ LET ch == Boardchan(c)
           s0 == BoardOf(boards, hw, c)
           s1 == set_ioexpander(s0, ch, HIGH)
       IN  /\ boards' = [boards EXCEPT ![Boardnum(c)] = s1.bd]
           /\ hw' = [hw EXCEPT ![Boardnum(c)] = s1.hw]
           /\ wiperpos' = get_pot(s0.bd, Potnum(ch), Wipernum(ch))
           /\ wiper0' = get_pot(s0.bd, Potnum(ch), Wipernum(ch))
           /\ dev0' = HwWiper(s0.hw, ch)
    /\ op' = o /\ chan' = c /\ tgt' = t
    /\ pc' = "loop"
    /\ ntxn' = ntxn + TxnCount("set_ioexpander")
    /\ UNCHANGED <<store, curve, retOf, outcome, ret, i, val, nreads, nwrites,
                   saved, calls, hw0>>

\* break, then save_boards_state(boards) at line 103 / 159
BreakAndSave(out) ==
    /\ store' = save_all_states(boards)
    /\ saved' = saved + 1
    /\ Return(out)
    /\ UNCHANGED <<hw, boards, i, wiperpos, nwrites>>

\* break right after a sensor read
ReadBreakAndSave(out) == BreakAndSave(out) /\ ntxn' = ntxn + ReadTxns(op)

Step_NoCount(d) ==
    LET ch == Boardchan(chan)
        s0 == BoardOf(boards, hw, chan)
        s1 == set_pot(s0, Potnum(ch), Wipernum(ch), wiperpos + d)
    IN  /\ PotArgsOk(Potnum(ch), Wipernum(ch), wiperpos + d)
        /\ wiperpos' = wiperpos + d
        /\ boards' = [boards EXCEPT ![Boardnum(chan)] = s1.bd]
        /\ hw' = [hw EXCEPT ![Boardnum(chan)] = s1.hw]
        /\ nwrites' = nwrites + 1
        /\ ntxn' = ntxn + ReadTxns(op) + TxnCount("set_pot")
        /\ i' = i
        /\ UNCHANGED <<store, saved, pc, outcome, ret, retOf>>

Step_Double(d) ==
    LET ch == Boardchan(chan)
        s0 == BoardOf(boards, hw, chan)
        s1 == set_pot(s0, Potnum(ch), Wipernum(ch), wiperpos + 2 * d)
    IN  /\ PotArgsOk(Potnum(ch), Wipernum(ch), wiperpos + 2 * d)
        /\ wiperpos' = wiperpos + 2 * d
        /\ boards' = [boards EXCEPT ![Boardnum(chan)] = s1.bd]
        /\ hw' = [hw EXCEPT ![Boardnum(chan)] = s1.hw]
        /\ nwrites' = nwrites + 1
        /\ ntxn' = ntxn + ReadTxns(op) + TxnCount("set_pot")
        /\ i' = i + 1
        /\ UNCHANGED <<store, saved, pc, outcome, ret, retOf>>

\* wiperpos += d; bd.set_pot(potnum, wipernum, wiperpos); i += 1
Step(d) ==
    LET ch == Boardchan(chan)
        s0 == BoardOf(boards, hw, chan)
        s1 == set_pot(s0, Potnum(ch), Wipernum(ch), wiperpos + d)
    IN  /\ PotArgsOk(Potnum(ch), Wipernum(ch), wiperpos + d)
        /\ wiperpos' = wiperpos + d
        /\ boards' = [boards EXCEPT ![Boardnum(chan)] = s1.bd]
        /\ hw' = [hw EXCEPT ![Boardnum(chan)] = s1.hw]
        /\ nwrites' = nwrites + 1
        /\ ntxn' = ntxn + ReadTxns(op) + TxnCount("set_pot")
        /\ i' = i + 1
        /\ UNCHANGED <<store, saved, pc, outcome, ret, retOf>>

\* lines 75-79: the iteration limit
IterTimeout ==
    /\ pc = "loop"
    /\ TimedOut(i)
    /\ BreakAndSave("timeout")
    /\ UNCHANGED <<val, nreads, curve, op, chan, tgt, wiper0, calls, ntxn, hw0, dev0>>

\* lines 80-101: what follows from the sensor reading v
IterReadOf(v) ==
    /\ pc = "loop"
    /\ ~TimedOut(i)
    /\ val' = v
    /\ nreads' = nreads + 1
    /\ IF IsFault(op, v)
       THEN /\ Return("fault")
            /\ ntxn' = ntxn + ReadTxns(op)
            /\ UNCHANGED <<store, saved, hw, boards, i, wiperpos, nwrites>>
       ELSE IF WithinTolerance(op, v, tgt)
       THEN ReadBreakAndSave("converged")
       ELSE IF Below(v, tgt)
       THEN IF AtCeiling(wiperpos)
            THEN ReadBreakAndSave("unreachable")
            ELSE Step(1)
       ELSE IF AtFloor(wiperpos)
            THEN ReadBreakAndSave("unreachable")
            ELSE Step(-1)
    /\ UNCHANGED <<curve, op, chan, tgt, wiper0, calls, hw0, dev0>>

\* line 80 / 136: val = bd.get_current(ch) / bd.get_bus(ch), then the above
IterRead ==
    IterReadOf(Measure(op, BoardOf(boards, hw, chan), Boardchan(chan), curve))

\* __getboard(channel, boards) has two parameters; get_iLNA and get_vLNA
\* call it as __getboard(chan)
GETBOARD_PARAMS == 2
GET_CALL_ARGS == 1

\* Python binds the arguments of a call before it runs the callee's body
ArgsBind(given, params) == given = params

\* get_iLNA / get_vLNA, lines 162-183: bd, ch = __getboard(chan), then
\* return bd.get_current(ch) / bd.get_bus(ch)
CallGet(o, c) ==
    /\ pc = "idle" /\ calls < MaxCalls
    /\ calls' = calls + 1
    /\ op' = o /\ chan' = c
    /\ i' = 0 /\ wiperpos' = 0 /\ wiper0' = 0 /\ nwrites' = 0 /\ saved' = 0
    /\ hw0' = hw /\ dev0' = 0
    /\ IF ~ArgsBind(GET_CALL_ARGS, GETBOARD_PARAMS)
       THEN /\ Return("typeerror")
            /\ val' = Rat(0, 1) /\ nreads' = 0 /\ ntxn' = 0
       ELSE IF ~ChannelOk(c)
       THEN /\ Return("assertion")
            /\ val' = Rat(0, 1) /\ nreads' = 0 /\ ntxn' = 0
       ELSE /\ Return("read")
            /\ val' = Measure(o, BoardOf(boards, hw, c), Boardchan(c), curve)
            /\ nreads' = 1 /\ ntxn' = ReadTxns(o)
    /\ UNCHANGED <<store, hw, boards, curve, tgt>>

\* line 204: importing ALPACABias runs initialize_boards() once; with no
\* snapshot saved yet that constructs the 18 boards
Imported ==
    /\ store = NoSnapshot
    /\ LET ib == initialize_boards(NoSnapshot, PowerOnDevices)
       IN  /\ boards = ib.boards
           /\ hw = ib.hw

NoCall ==
    /\ pc = "idle" /\ op = "i" /\ chan = 1 /\ tgt = Rat(0, 1)
    /\ i = 0 /\ wiperpos = 0 /\ wiper0 = 0 /\ val = Rat(0, 1)
    /\ outcome = "none" /\ ret = "none"
    /\ retOf = [o \in Outcomes |-> {}]
    /\ nreads = 0 /\ nwrites = 0 /\ saved = 0 /\ calls = 0
    /\ ntxn = 0 /\ hw0 = hw /\ dev0 = 0

EngineInit == curve \in Curves /\ Imported /\ NoCall

NoOp ==
    [kind |-> "none", b |-> 1, x |-> 0, y |-> 0, z |-> 0,
     res |-> "none", rv |-> 0, failed |-> FALSE]

BusIdle ==
    /\ gate = {} /\ bpc = "idle" /\ bop = NoOp /\ bfds = {} /\ bused = 0
    /\ overlap = FALSE /\ bcount = 0
    /\ lastpot = [b \in {1, 2} |-> [pot \in {1, 2} |-> [w \in 1 .. 4 |-> 0]]]

\* neither of the two callers has started an operation
TwoIdle == callers = [p \in {1, 2} |-> [pc |-> "idle", op |-> NoOp, n |-> 0]]

NoResult == [ok |-> FALSE, board |-> 0, ch |-> 0]

RouterIdle == rchan = 0 /\ rres = NoResult /\ rprev = [chan |-> 0, res |-> NoResult]

\* no board is under construction
NoConstruction ==
    /\ ipc = "none" /\ iaddr = 0 /\ ij = 0 /\ ilog = <<>>
    /\ iobj = [bd |-> FreshCache(CURRENT_DIVIDER_X10), hw |-> PowerOnDevices[1]]

Init == EngineInit /\ BusIdle /\ RouterIdle /\ NoConstruction /\ TwoIdle

Next ==
    \/ CallEnter /\ UNCHANGED <<busVars, routerVars, initVars, twoVars>>
    \/ \E o \in {"i", "v"} : \E c \in BadChans : \E t \in BadChannelTargets :
          CallBadChannel(o, c, t) /\ UNCHANGED <<busVars, routerVars, initVars, twoVars>>
    \/ \E o \in {"i", "v"} : \E c \in Chans : \E t \in Targets(o) :
          CallZero(o, c, t) /\ UNCHANGED <<busVars, routerVars, initVars, twoVars>>
    \/ \E o \in {"i", "v"} : \E c \in Chans : \E t \in Targets(o) :
          CallStart(o, c, t) /\ UNCHANGED <<busVars, routerVars, initVars, twoVars>>
    \/ IterTimeout /\ UNCHANGED <<busVars, routerVars, initVars, twoVars>>
    \/ IterRead /\ UNCHANGED <<busVars, routerVars, initVars, twoVars>>
    \/ \E o \in {"i", "v"} : \E c \in Chans \cup BadChans :
          CallGet(o, c) /\ UNCHANGED <<busVars, routerVars, initVars, twoVars>>

Spec == Init /\ [][Next]_vars

(***************************************************************************)
(* One convergence loop against a sensor that is not a function of the     *)
(* wiper: each averaged reading is any of a reading below the target, one  *)
(* within tolerance, one above and one at the fault threshold ("noise"),   *)
(* and against the mock sensor of the end-to-end example, which returns    *)
(* wiper * 0.4 mA ("mock").  A call that has entered its loop keeps        *)
(* running: the program is sequential and every bus transaction blocks     *)
(* until the hardware answers.                                             *)
(***************************************************************************)
NoisyReadings(o) ==
    IF o = "i"
    THEN {Rat(0, 1), Rat(50, 1), Rat(100, 1), Rat(1000, 1)}
    ELSE {Rat(0, 10), Rat(5, 10), Rat(10, 10), Rat(30, 10)}

\* wiper * 0.4 mA
MockSensor(w) == Rat(4 * w, 10)

LoopTarget(o) == IF o = "i" THEN Rat(50, 1) ELSE Rat(5, 10)

IterNoisy == curve = "noise" /\ \E v \in NoisyReadings(op) : IterReadOf(v)

IterMock ==
    /\ curve = "mock"
    /\ IterReadOf(MockSensor(HwWiper(hw[Boardnum(chan)], Boardchan(chan))))

LoopStep == (IterTimeout \/ IterNoisy \/ IterMock) /\ UNCHANGED <<busVars, routerVars, initVars, twoVars>>

InitLoop ==
    /\ curve \in {"noise", "mock"} /\ Imported /\ NoCall /\ BusIdle /\ RouterIdle
    /\ NoConstruction /\ TwoIdle

NextLoop ==
    \/ calls = 0 /\ CallEnter /\ UNCHANGED <<busVars, routerVars, initVars, twoVars>>
    \/ \E o \in {"i", "v"} :
          /\ curve = "mock" => o = "i"
          /\ CallStart(o, 1, LoopTarget(o))
          /\ UNCHANGED <<busVars, routerVars, initVars, twoVars>>
    \/ IterTimeout /\ UNCHANGED <<busVars, routerVars, initVars, twoVars>>
    \/ IterNoisy /\ UNCHANGED <<busVars, routerVars, initVars, twoVars>>
    \/ IterMock /\ UNCHANGED <<busVars, routerVars, initVars, twoVars>>

SpecLoop == InitLoop /\ [][NextLoop]_vars /\ WF_vars(LoopStep)

(***************************************************************************)
(* The board controller on the shared bus, one bus transaction per step.   *)
(* Every gated method of BiasBoard runs __start(), opens its device        *)
(* handle, issues its device transactions and runs __end().  A device      *)
(* transaction either succeeds, or fails with an error code that the       *)
(* method does not look at, or fails by raising, which ends the method     *)
(* where it is.  The devices of all boards have the same addresses behind  *)
(* their repeaters: a write reaches every board whose gate is connected.   *)
(***************************************************************************)
MaxBusOps == 2

BusBoards == {1, 2}

Op(k, b, x, y, z) ==
    [kind |-> k, b |-> b, x |-> x, y |-> y, z |-> z,
     res |-> "none", rv |-> 0, failed |-> FALSE]

BusOps ==
    UNION { {Op("set_ioexpander", b, pin, st, 0) : pin \in {1, 16, 17}, st \in {0, 1}}
            \cup {Op("zero_ioexpander", b, 0, 0, 0)}
            \cup {Op("set_pot", b, pot, w, v) : pot \in {1, 2, 3}, w \in {1, 5}, v \in {7, 200, 256}}
            \cup {Op(k, b, ch, 0, 0) :
                    k \in {"init_currsense", "getCurrent_raw", "getShuntVoltage_raw",
                           "getBusVoltage_raw"},
                    ch \in {1, 9}}
          : b \in BusBoards }

InaKinds == {"init_currsense", "getCurrent_raw", "getShuntVoltage_raw", "getBusVoltage_raw"}

\* the assertions a method makes before __start()
PreGateOk(o) ==
    CASE o.kind = "set_ioexpander" -> PinOk(o.x)
      [] o.kind = "set_pot"        -> PotArgsOk(o.x, o.y, o.z)
      [] OTHER                     -> TRUE

\* __get_fina's assertions, made after __start()
InaChanOk(chn) == chn > 0 /\ chn <= 8

Handle(k) ==
    CASE k \in {"set_ioexpander", "zero_ioexpander"} -> "iox"
      [] k = "set_pot"                               -> "pot"
      [] OTHER                                       -> "ina"

\* __start(): the repeater of the board is told to connect
start(g, b) == g \cup {b}

\* __end(): the repeater of the board is told to disconnect
end(g, b) == g \ {b}

\* what the method leaves in the board object when it reaches its transaction
CacheAfter(o, bd) ==
    LET s == [bd |-> bd, hw |-> hw[o.b]]
    IN  CASE o.kind = "set_ioexpander"  -> set_ioexpander(s, o.x, o.y = 1).bd
          [] o.kind = "zero_ioexpander" -> zero_ioexpander(s).bd
          [] o.kind = "set_pot"         -> set_pot(s, o.x, o.y, o.z).bd
          [] o.kind = "init_currsense"  -> init_currsense(s, o.x, CURRENT_DIVIDER_X10).bd
          [] OTHER                      -> bd

\* what a successful write leaves in the devices h of a connected board
DevicesAfter(o, h) ==
    LET s == [bd |-> boards[o.b], hw |-> h]
    IN  CASE o.kind = "set_ioexpander"  -> set_ioexpander(s, o.x, o.y = 1).hw
          [] o.kind = "zero_ioexpander" -> zero_ioexpander(s).hw
          [] o.kind = "set_pot"         -> set_pot(s, o.x, o.y, o.z).hw
          [] OTHER                      -> h

\* what the last transaction of a raw read returns
ReadResult(o) ==
    CASE o.kind = "getCurrent_raw"    -> ina_getCurrent_raw(hw[o.b], o.x, curve)
      [] o.kind = "getBusVoltage_raw" -> ina_getBusVoltage_raw(hw[o.b], o.x, curve)
      [] o.kind = "getShuntVoltage_raw" -> MSBF(read16(RegCurrent(curve, HwWiper(hw[o.b], o.x))))
      [] OTHER                        -> 0

\* an assertion ahead of __start() fails: nothing reaches the bus
BusReject(o) ==
    /\ bpc = "idle" /\ bcount < MaxBusOps
    /\ ~PreGateOk(o)
    /\ bop' = [o EXCEPT !.res = "AssertionError"]
    /\ bcount' = bcount + 1
    /\ UNCHANGED <<gate, bpc, bfds, bused, overlap, lastpot, boards, hw>>

\* the method passes its assertions and runs __start()
BusBegin(o) ==
    /\ bpc = "idle" /\ bcount < MaxBusOps
    /\ PreGateOk(o)
    /\ gate' = start(gate, o.b)
    /\ bfds' = bfds \cup {<<o.b, "frptr">>}
    /\ bpc' = "open"
    /\ bop' = o
    /\ bused' = 0
    /\ bcount' = bcount + 1
    /\ lastpot' = IF o.kind = "set_pot"
                  THEN [lastpot EXCEPT ![o.b][o.x][o.y] = o.z]
                  ELSE lastpot
    /\ UNCHANGED <<overlap, boards, hw>>

\* __get_fina(chan) refuses the channel: the method ends inside the window
BusInaAssert ==
    /\ bpc = "open"
    /\ bop.kind \in InaKinds /\ bused = 0
    /\ ~InaChanOk(bop.x)
    /\ bpc' = "idle"
    /\ bop' = [bop EXCEPT !.res = "AssertionError"]
    /\ UNCHANGED <<gate, bfds, bused, overlap, lastpot, bcount, boards, hw>>

\* the next device transaction of the method, with result r
BusTransact(r) ==
    /\ bpc = "open"
    /\ bused < TxnCount(bop.kind)
    /\ bop.kind \in InaKinds => InaChanOk(bop.x)
    /\ overlap' = (overlap \/ gate # {bop.b})
    /\ bfds' = bfds \cup {<<bop.b, Handle(bop.kind)>>}
    /\ bused' = bused + 1
    /\ boards' = [boards EXCEPT ![bop.b] = CacheAfter(bop, @)]
    /\ hw' = IF r = "ok"
             THEN [g \in 1 .. NBOARDS |->
                      IF g \in gate THEN DevicesAfter(bop, hw[g]) ELSE hw[g]]
             ELSE hw
    /\ IF r = "raise"
       THEN /\ bpc' = "idle"
            /\ bop' = [bop EXCEPT !.res = "TransportError", !.failed = TRUE]
       ELSE /\ bpc' = bpc
            /\ bop' = IF r = "ok"
                      THEN [bop EXCEPT !.res = "ok", !.rv = ReadResult(bop)]
                      ELSE [bop EXCEPT !.res = "nack", !.rv = -1, !.failed = TRUE]
    /\ UNCHANGED <<gate, bcount, lastpot>>

\* get_pot(pot, wiper), lines 182-199: the assertions, then the cached value;
\* no __start(), no device handle
BusGetPot(b, pot, wiper) ==
    /\ bpc = "idle" /\ bcount < MaxBusOps
    /\ bcount' = bcount + 1
    /\ bused' = 0
    /\ bop' = IF wiper > 0 /\ wiper <= 4 /\ (pot = 1 \/ pot = 2)
              THEN [Op("get_pot", b, pot, wiper, 0) EXCEPT
                       !.res = "ok", !.rv = get_pot(boards[b], pot, wiper)]
              ELSE [Op("get_pot", b, pot, wiper, 0) EXCEPT !.res = "AssertionError"]
    /\ UNCHANGED <<gate, bpc, bfds, overlap, lastpot, boards, hw>>

\* __end(): the handles are closed and the repeater is told to disconnect
BusEnd ==
    /\ bpc = "open"
    /\ bused = TxnCount(bop.kind)
    /\ gate' = end(gate, bop.b)
    /\ bfds' = {h \in bfds : h[1] # bop.b}
    /\ bpc' = "idle"
    /\ UNCHANGED <<bop, bused, overlap, lastpot, bcount, boards, hw>>

busFrame ==
    <<store, curve, pc, op, chan, tgt, i, wiperpos, wiper0, val, outcome, ret,
      retOf, nreads, nwrites, saved, calls, ntxn, hw0, dev0, rchan, rres, rprev,
      ipc, iaddr, ij, iobj, ilog, callers>>

InitBus ==
    /\ curve = "lin" /\ Imported /\ NoCall /\ BusIdle /\ RouterIdle
    /\ NoConstruction /\ TwoIdle

NextBus ==
    \/ \E o \in BusOps : BusReject(o) /\ UNCHANGED busFrame
    \/ \E o \in BusOps : BusBegin(o) /\ UNCHANGED busFrame
    \/ BusInaAssert /\ UNCHANGED busFrame
    \/ \E r \in {"ok", "nack", "raise"} : BusTransact(r) /\ UNCHANGED busFrame
    \/ BusEnd /\ UNCHANGED busFrame
    \/ \E b \in BusBoards : \E pot \in {1, 2, 3} : \E w \in {1, 2, 5} :
          BusGetPot(b, pot, w) /\ UNCHANGED busFrame

SpecBus == InitBus /\ [][NextBus]_vars

(***************************************************************************)
(* Two callers of the board controller at once, caller 1 on board 1 and    *)
(* caller 2 on board 2, sharing the bus and the board objects.  The steps  *)
(* of a gated method are __start(), its device transaction and __end();    *)
(* the steps of the two callers interleave freely.                         *)
(***************************************************************************)
MaxTwoOps == 2

Callers == {1, 2}

TwoOps(p) ==
    {Op("set_pot", p, 1, 1, v) : v \in {7, 200}}
    \cup {Op("set_ioexpander", p, 1, st, 0) : st \in {0, 1}}

MayStart_Locked(g, b) == g = {}

\* __start() opens the repeater's handle and writes the connect instruction;
\* it takes no lock and does not look at the other repeaters
MayStart(g, b) == TRUE

TwoBegin(p, o) ==
    /\ callers[p].pc = "idle" /\ callers[p].n < MaxTwoOps
    /\ PreGateOk(o)
    /\ MayStart(gate, o.b)
    /\ gate' = start(gate, o.b)
    /\ callers' = [callers EXCEPT ![p] = [pc |-> "open", op |-> o, n |-> @.n + 1]]
    /\ UNCHANGED <<hw, boards, overlap>>

\* the write16 / write8 of the method: it reaches every board whose gate is
\* connected
TwoTransact(p) ==
    /\ callers[p].pc = "open"
    /\ LET o == callers[p].op
       IN  /\ overlap' = (overlap \/ gate # {o.b})
           /\ boards' = [boards EXCEPT ![o.b] = CacheAfter(o, @)]
           /\ hw' = [g \in 1 .. NBOARDS |->
                        IF g \in gate THEN DevicesAfter(o, hw[g]) ELSE hw[g]]
    /\ callers' = [callers EXCEPT ![p].pc = "sent"]
    /\ UNCHANGED gate

TwoEnd(p) ==
    /\ callers[p].pc = "sent"
    /\ gate' = end(gate, callers[p].op.b)
    /\ callers' = [callers EXCEPT ![p].pc = "idle"]
    /\ UNCHANGED <<hw, boards, overlap>>

twoFrame ==
    <<store, curve, pc, op, chan, tgt, i, wiperpos, wiper0, val, outcome, ret,
      retOf, nreads, nwrites, saved, calls, ntxn, hw0, dev0,
      bpc, bop, bfds, bused, bcount, lastpot, rchan, rres, rprev,
      ipc, iaddr, ij, iobj, ilog>>

InitTwo ==
    /\ curve = "lin" /\ Imported /\ NoCall /\ BusIdle /\ RouterIdle
    /\ NoConstruction /\ TwoIdle

NextTwo ==
    \/ \E p \in Callers : \E o \in TwoOps(p) : TwoBegin(p, o) /\ UNCHANGED twoFrame
    \/ \E p \in Callers : TwoTransact(p) /\ UNCHANGED twoFrame
    \/ \E p \in Callers : TwoEnd(p) /\ UNCHANGED twoFrame

SpecTwo == InitTwo /\ [][NextTwo]_vars

(***************************************************************************)
(* The channel router on its own: __getboard applied to one channel after  *)
(* another.                                                                *)
(***************************************************************************)
RouterInputs == 0 .. 145

Resolve(c) ==
    /\ rprev' = [chan |-> rchan, res |-> rres]
    /\ rchan' = c
    /\ rres' = getboard(c)

routerFrame ==
    <<store, hw, boards, curve, pc, op, chan, tgt, i, wiperpos, wiper0, val,
      outcome, ret, retOf, nreads, nwrites, saved, calls, ntxn, hw0, dev0,
      gate, bpc, bop, bfds, bused, overlap, bcount, lastpot,
      ipc, iaddr, ij, iobj, ilog, callers>>

\* the router reads no board: none is held
InitRouter ==
    /\ curve = "lin" /\ store = NoSnapshot /\ boards = <<>> /\ hw = <<>>
    /\ NoCall /\ BusIdle /\ RouterIdle /\ NoConstruction /\ TwoIdle

NextRouter == \E c \in RouterInputs : Resolve(c) /\ UNCHANGED routerFrame

SpecRouter == InitRouter /\ [][NextRouter]_vars

(***************************************************************************)
(* The construction of the 18 boards, one statement of BiasBoard.__init__  *)
(* per step: the list comprehension of initialize_boards constructs the    *)
(* boards in the order of their addresses, each on the devices as it       *)
(* finds them, at power-on values or as an earlier run left them.          *)
(***************************************************************************)
\* devices that an earlier run left with wipers set and pins high
UsedDevices ==
    [b \in 1 .. NBOARDS |->
        [iox |-> 511, rdac1 |-> <<200, 0, 7, 255>>, rdac2 |-> <<1, 2, 3, 4>>]]

Dev(k, a, b) == [k |-> k, a |-> a, b |-> b]

Issue(s, entry) ==
    /\ iobj' = s
    /\ hw' = [hw EXCEPT ![iaddr] = s.hw]
    /\ ilog' = Append(ilog, entry)

AfterPower_Once(j) == [pc |-> "zero_pots", j |-> 1]

\* for j in range(1, 8 + 1): the next channel, or zero_pots() after the last
AfterPower(j) ==
    IF j < NCHAN THEN [pc |-> "sense", j |-> j + 1] ELSE [pc |-> "zero_pots", j |-> 1]

\* bc.BiasBoard(addr, CURRENT_DIVIDER), lines 93-106: the fields of the object
ConstructBegin ==
    /\ ipc \in {"none", "done"} /\ iaddr < NBOARDS
    /\ iaddr' = iaddr + 1
    /\ iobj' = [bd |-> FreshCache(CURRENT_DIVIDER_X10), hw |-> hw[iaddr + 1]]
    /\ ilog' = <<>>
    /\ ij' = 0
    /\ ipc' = "zero_ioexpander"
    /\ UNCHANGED <<hw, boards>>

\* line 109: self.zero_ioexpander()
InitZeroIox ==
    /\ ipc = "zero_ioexpander"
    /\ Issue(zero_ioexpander(iobj), Dev("zero_ioexpander", 0, 0))
    /\ ipc' = "enable"
    /\ UNCHANGED <<iaddr, ij, boards>>

\* line 110: self.set_ioexpander(0, HIGH)
InitEnable ==
    /\ ipc = "enable"
    /\ Issue(set_ioexpander(iobj, 0, HIGH), Dev("set_ioexpander", 0, 1))
    /\ ipc' = "sense" /\ ij' = 1
    /\ UNCHANGED <<iaddr, boards>>

\* line 112: self.init_currsense(j, curr_divider)
InitSense ==
    /\ ipc = "sense"
    /\ Issue(init_currsense(iobj, ij, CURRENT_DIVIDER_X10), Dev("init_currsense", ij, 0))
    /\ ipc' = "power"
    /\ UNCHANGED <<iaddr, ij, boards>>

\* line 113: self.set_ioexpander(j, HIGH)
InitPower ==
    /\ ipc = "power"
    /\ Issue(set_ioexpander(iobj, ij, HIGH), Dev("set_ioexpander", ij, 1))
    /\ ipc' = AfterPower(ij).pc /\ ij' = AfterPower(ij).j
    /\ UNCHANGED <<iaddr, boards>>

\* line 114, zero_pots(): its ij-th set_pot, lines 212-219; after the last
\* the constructor returns and the board joins the list
InitZeroPot ==
    /\ ipc = "zero_pots"
    /\ PotArgsOk(Potnum(ij), Wipernum(ij), 0)
    /\ LET s == set_pot(iobj, Potnum(ij), Wipernum(ij), 0)
       IN  /\ Issue(s, Dev("set_pot", Potnum(ij), Wipernum(ij)))
           /\ IF ij < 8
              THEN ipc' = "zero_pots" /\ ij' = ij + 1 /\ boards' = boards
              ELSE ipc' = "done" /\ ij' = ij /\ boards' = Append(boards, s.bd)
    /\ UNCHANGED iaddr

constructFrame ==
    <<store, curve, pc, op, chan, tgt, i, wiperpos, wiper0, val, outcome, ret,
      retOf, nreads, nwrites, saved, calls, ntxn, hw0, dev0,
      gate, bpc, bop, bfds, bused, overlap, bcount, lastpot, rchan, rres, rprev,
      callers>>

InitConstruct ==
    /\ curve = "lin" /\ store = NoSnapshot /\ boards = <<>>
    /\ hw \in {PowerOnDevices, UsedDevices}
    /\ NoCall /\ BusIdle /\ RouterIdle /\ TwoIdle
    /\ ipc = "none" /\ iaddr = 0 /\ ij = 0 /\ ilog = <<>>
    /\ iobj = [bd |-> FreshCache(CURRENT_DIVIDER_X10), hw |-> PowerOnDevices[1]]

NextConstruct ==
    \/ ConstructBegin /\ UNCHANGED constructFrame
    \/ InitZeroIox /\ UNCHANGED constructFrame
    \/ InitEnable /\ UNCHANGED constructFrame
    \/ InitSense /\ UNCHANGED constructFrame
    \/ InitPower /\ UNCHANGED constructFrame
    \/ InitZeroPot /\ UNCHANGED constructFrame

SpecConstruct == InitConstruct /\ [][NextConstruct]_vars

(***************************************************************************)
(* Claims about the convergence loop                                       *)
(***************************************************************************)
Terminal == {"converged", "fault", "unreachable", "timeout"}

Returned_(out) == pc = "idle" /\ outcome = out

\* the channel of the call in progress or just finished
CallBoard == Boardnum(chan)
CallCh == Boardchan(chan)
CachedWiper == get_pot(boards[CallBoard], Potnum(CallCh), Wipernum(CallCh))
DeviceWiper == HwWiper(hw[CallBoard], CallCh)

\* the reading the sensor of a channel gives with the wiper at w
ReadingAt(o, w) ==
    Measure(o, [bd |-> FreshCache(CURRENT_DIVIDER_X10),
                hw |-> [iox |-> 0, rdac1 |-> <<w, 0, 0, 0>>, rdac2 |-> <<0, 0, 0, 0>>]],
            1, curve)

FaultyReading(o, v) == IF o = "i" THEN v.n >= 1000 * v.d ELSE v.n >= 3 * v.d

\* |v - t| / t < 0.05
Within5Percent(v, t) ==
    IF t.n > 0 THEN 20 * Abs(v.n * t.d - t.n * v.d) < v.d * t.n ELSE TRUE

NeverFaulty(o) == \A w \in 0 .. 255 : ~FaultyReading(o, ReadingAt(o, w))

ReachableTarget(o, t) == \E w \in 0 .. 255 : Within5Percent(ReadingAt(o, w), t)

NonDecreasing(o) ==
    \A w \in 0 .. 254 : ReadingAt(o, w).n * ReadingAt(o, w + 1).d
                            <= ReadingAt(o, w + 1).n * ReadingAt(o, w).d

ConvergedIn256 ==
    /\ outcome = "converged"
    /\ nreads <= 256
    /\ Within5Percent(val, tgt)

\* C1 as stated: a call with a non-zero target that some wiper value brings
\* within 5% (the reading being a function of the wiper position that stays
\* below the fault threshold) ends converged within 256 iterations.
C1_AnyResponse ==
    (pc = "idle" /\ outcome \in Terminal
        /\ NeverFaulty(op) /\ ReachableTarget(op, tgt))
    => ConvergedIn256

\* C1, amended: the same for a reading that is a non-decreasing function of
\* the wiper position.
C1_MonotoneConverges ==
    (pc = "idle" /\ outcome \in Terminal
        /\ NeverFaulty(op) /\ NonDecreasing(op) /\ ReachableTarget(op, tgt))
    => ConvergedIn256

C1_Witness ==
    /\ Returned_("converged") /\ curve = "lin" /\ tgt.n > 0
    /\ wiper0 > wiperpos /\ nreads > 100 /\ calls = 2

\* C2: one call performs at most MAXITER = 256 sensor reads and at most 256
\* wiper writes; the timeout outcome comes without a 257th.
C2_AtMost256Iterations ==
    /\ nreads <= 256
    /\ nwrites <= 256
    /\ (Returned_("timeout") => nreads = 256)

\* C3: a loop iteration that writes the wiper moves it by exactly one unit,
\* and every cached and every written wiper value lies in 0..255.
WipersInRange ==
    \A b \in Boards : \A w \in 1 .. 4 :
        /\ boards[b].pot1[w] \in 0 .. 255 /\ boards[b].pot2[w] \in 0 .. 255
        /\ hw[b].rdac1[w] \in 0 .. 255 /\ hw[b].rdac2[w] \in 0 .. 255

UnitStep ==
    (pc = "loop" /\ (nwrites' # nwrites \/ CachedWiper' # CachedWiper
                        \/ DeviceWiper' # DeviceWiper))
    => /\ nwrites' = nwrites + 1
       /\ CachedWiper' - CachedWiper \in {1, -1}
       /\ DeviceWiper' = CachedWiper'
       /\ wiperpos' = CachedWiper'

C3_UnitStepInRange == [](WipersInRange) /\ [][UnitStep]_vars

C3_Witness ==
    /\ pc = "loop" /\ nwrites > 100 /\ wiperpos < wiper0 /\ DeviceWiper = wiperpos

\* C4: a call with target 0 leaves the channel's power pin low and its wiper
\* at 0, on the devices, in the cache and in the snapshot, and has made no
\* sensor read and no loop iteration; channel 73 is board 10, channel 1.
C4_ZeroTargetOff ==
    Returned_("off") =>
        /\ tgt.n = 0
        /\ Bit(hw[CallBoard].iox, CallCh) = 0
        /\ Bit(boards[CallBoard].pinstate, CallCh) = 0
        /\ DeviceWiper = 0 /\ CachedWiper = 0
        /\ store = boards /\ saved = 1
        /\ nreads = 0 /\ nwrites = 0 /\ i = 0
        /\ (chan = 73 => Bit(hw[10].iox, 1) = 0 /\ hw[10].rdac1[1] = 0)

C4_Witness ==
    /\ Returned_("off") /\ chan = 73 /\ wiper0 > 0 /\ calls = 2
    /\ Bit(hw[10].iox, 0) = 1

\* C5 as stated: after a call that met a faulty reading the wiper is where
\* it was before the call.
C5_WiperAsBeforeCall ==
    Returned_("fault") => (wiperpos = wiper0 /\ DeviceWiper = wiper0)

\* C5, amended: a reading at or above the fault threshold ends the call at
\* that reading with the fault outcome and the wiper where it was when the
\* reading was taken; that is the value before the call when the reading is
\* the first of the call.
FaultAborts ==
    (pc = "loop" /\ nreads' = nreads + 1 /\ FaultyReading(op, val'))
    => /\ pc' = "idle" /\ outcome' = "fault"
       /\ hw' = hw /\ boards' = boards /\ wiperpos' = wiperpos
       /\ (nreads = 0 => wiperpos' = wiper0 /\ CachedWiper' = wiper0)

C5_FaultLeavesWiper == [][FaultAborts]_vars

C5_Witness == Returned_("fault") /\ nreads > 1 /\ wiperpos # wiper0

\* C6: every terminal outcome of a non-zero-target call is followed by a
\* save, and the saved wipers and power-gate bits are those last written to
\* the devices.
SnapshotMatchesDevices ==
    /\ store # NoSnapshot
    /\ \A b \in Boards :
          /\ store[b].pot1 = hw[b].rdac1
          /\ store[b].pot2 = hw[b].rdac2
          /\ IoxWord(store[b].pinstate) = hw[b].iox

C6_PersistOnEveryOutcome ==
    (pc = "idle" /\ outcome \in Terminal) => (saved >= 1 /\ SnapshotMatchesDevices)

\* C7: the results handed back with two different outcomes differ.
C7_OutcomesDistinguishable ==
    \A o1 \in Terminal : \A o2 \in Terminal :
        o1 # o2 => retOf[o1] \cap retOf[o2] = {}

(***************************************************************************)
(* Claims about the repeater gate                                          *)
(***************************************************************************)
\* C8: with one caller, every device transaction is issued while the gate of
\* its board, and no other gate, is connected.
C8_WindowsNeverOverlap == ~overlap

\* C9: when a gated operation in which a device transaction failed has
\* returned or has propagated the error, its board's gate is disconnected.
C9_GateReleasedOnAllPaths ==
    (bpc = "idle" /\ bop.failed) => bop.b \notin gate

(***************************************************************************)
(* Claims about the channel router                                         *)
(***************************************************************************)
\* C10: every channel in 1..144 resolves to board ceil(channel/8) in 1..18
\* and board-channel ((channel-1) mod 8)+1 in 1..8, two different channels
\* never resolve to the same pair, and every pair is the image of a channel.
EveryPairResolved ==
    \A b \in 1 .. 18 : \A k \in 1 .. 8 :
        \E c \in 1 .. 144 : getboard(c).board = b /\ getboard(c).ch = k

C10_RouterBijection ==
    /\ (rchan \in 1 .. 144 /\ rres # NoResult) =>
          /\ rres.ok
          /\ rres.board \in 1 .. 18 /\ rres.ch \in 1 .. 8
          /\ 8 * (rres.board - 1) < rchan /\ rchan <= 8 * rres.board
          /\ rchan = 8 * (rres.board - 1) + rres.ch
    /\ (rres.ok /\ rprev.res.ok /\ rres.board = rprev.res.board
            /\ rres.ch = rprev.res.ch) => rchan = rprev.chan
    /\ EveryPairResolved

C10_Witness ==
    /\ rchan = 73 /\ rres.ok /\ rres.board = 10 /\ rres.ch = 1
    /\ rprev.chan = 144 /\ rprev.res.board = 18 /\ rprev.res.ch = 8

(***************************************************************************)
(* Claims about the public operations                                      *)
(***************************************************************************)
CallReturned == pc = "idle" /\ outcome # "none"

GetReturned == pc = "idle" /\ outcome \in {"typeerror", "read"}

\* C11: a call with a channel outside 1..144 has ended with the out-of-range
\* error, has issued no device transaction and has left the devices, the
\* cached boards and the snapshot as it found them.
C11_RejectedBeforeHardware ==
    (CallReturned /\ ~ChannelOk(chan)) =>
        /\ ret = "AssertionError"
        /\ ntxn = 0
        /\ hw = hw0

\* C14: get_current / get_voltage on a channel in 1..144 hands back the
\* averaged reading of the resolved board and channel, and leaves the
\* devices as it found them.
C14_GetReturnsReading ==
    (GetReturned /\ ChannelOk(chan)) =>
        /\ outcome = "read"
        /\ val = Measure(op, BoardOf(boards, hw, chan), Boardchan(chan), curve)
        /\ hw = hw0

\* C12: with no snapshot saved, the boards that initialize_boards hands to
\* a call have all 8 wipers at 0 and the power pins 1..8 low, in the board
\* objects and on the devices.
C12_FreshBoardsZeroed ==
    (pc = "entered" /\ store = NoSnapshot) =>
        \A b \in Boards :
            /\ \A k \in 1 .. 8 :
                  /\ get_pot(boards[b], Potnum(k), Wipernum(k)) = 0
                  /\ HwWiper(hw[b], k) = 0
            /\ \A pin \in 1 .. 8 :
                  /\ Bit(boards[b].pinstate, pin) = 0
                  /\ Bit(hw[b].iox, pin) = 0

SetRunning == pc = "loop" \/ (pc = "idle" /\ outcome \in Terminal \cup {"off"})

\* C13: during and after set_current / set_voltage on a channel, every
\* wiper and every power-gate bit other than that channel's is as the call
\* found it, on all 18 boards.
C13_OnlyOwnChannelChanges ==
    SetRunning =>
        \A b \in Boards :
            /\ \A k \in 1 .. 8 :
                  (b # CallBoard \/ k # CallCh) =>
                      HwWiper(hw[b], k) = HwWiper(hw0[b], k)
            /\ \A pin \in 0 .. 15 :
                  (b # CallBoard \/ pin # CallCh) =>
                      Bit(hw[b].iox, pin) = Bit(hw0[b].iox, pin)

\* C15: a call that has entered its loop returns, whatever the sensor
\* reads, and what it returns with is one of converged, fault, unreachable
\* and timeout; inside the loop every reading taken so far was counted by
\* i, and i never passes MAXITER + 1.
C15_LoopAlwaysReturns ==
    /\ [](CallReturned => outcome \in Terminal)
    /\ [](pc = "loop" => (nreads = i /\ i <= MAXITER + 1))
    /\ (pc = "loop") ~> (pc = "idle" /\ outcome \in Terminal)

C15_Witness ==
    /\ Returned_("timeout") /\ curve = "noise" /\ nreads = 257
    /\ wiperpos \in 1 .. 254

\* C16: set_current(1, 50.0) from wiper 0 against a sensor that returns
\* wiper * 0.4 mA returns, converged, with the wiper of board 1, channel 1
\* within 6 steps of 125, its reading within 5% of 50 mA, and power pin 1
\* of board 1 high.
C16_MockConverges ==
    /\ [](  (curve = "mock" /\ CallReturned) =>
              /\ outcome = "converged"
              /\ chan = 1 /\ tgt = Rat(50, 1) /\ wiper0 = 0
              /\ Abs(wiperpos - 125) <= 6
              /\ hw[1].rdac1[1] = wiperpos /\ boards[1].pot1[1] = wiperpos
              /\ val = MockSensor(wiperpos)
              /\ Within5Percent(val, tgt)
              /\ Bit(hw[1].iox, 1) = 1 /\ Bit(boards[1].pinstate, 1) = 1 )
    /\ (curve = "mock" /\ pc = "loop") ~> Returned_("converged")

C16_Witness ==
    /\ curve = "mock" /\ Returned_("converged") /\ wiperpos = 119
    /\ nreads = 120 /\ nwrites = 119

(***************************************************************************)
(* Claims about the exits of the loop                                      *)
(***************************************************************************)
LessThan(v, t) == v.n * t.d < t.n * v.d

StoredWiper == get_pot(store[CallBoard], Potnum(CallCh), Wipernum(CallCh))

\* a pass of the loop has just read val'
ReadTaken == pc = "loop" /\ nreads' = nreads + 1

\* the reading val' is outside tolerance, below the target with the wiper
\* at 255 or above it with the wiper at 0
AtRail ==
    /\ ~FaultyReading(op, val') /\ tgt.n > 0 /\ ~Within5Percent(val', tgt)
    /\ \/ LessThan(val', tgt) /\ wiperpos = 255
       \/ ~LessThan(val', tgt) /\ wiperpos = 0

RailStops ==
    /\ (ReadTaken /\ AtRail) =>
          /\ pc' = "idle" /\ outcome' = "unreachable"
          /\ nwrites' = nwrites /\ hw' = hw /\ wiperpos' = wiperpos
          /\ CachedWiper' = wiperpos
          /\ saved' = saved + 1 /\ StoredWiper' = wiperpos
    /\ (ReadTaken /\ outcome' = "unreachable") => AtRail

\* C17: a pass that reads below the target with the wiper at 255, or above
\* it (outside tolerance) with the wiper at 0, ends the call unreachable
\* without a wiper write, with the rail value cached and saved; and the
\* unreachable outcome comes from no other pass.
C17_UnreachableAtRail == [][RailStops]_vars

C17_Witness ==
    /\ Returned_("unreachable") /\ wiperpos = 255 /\ wiper0 < 255
    /\ DeviceWiper = 255 /\ StoredWiper = 255

\* C18: a call that met a faulty reading returned with that reading as its
\* last: the reads are those of passes 0..i, the writes those of passes
\* 0..i-1, the device transactions of the call are those of its start,
\* these reads and these writes and nothing after them, and the wiper is
\* the one the last write left; after the return nothing happens but a new
\* call.
C18_NothingAfterFault ==
    /\ [](Returned_("fault") =>
              /\ FaultyReading(op, val)
              /\ nreads = i + 1 /\ nwrites = i
              /\ ntxn = initialize_txns(store) + 1 + nreads * ReadTxns(op) + nwrites
              /\ CachedWiper = wiperpos
              /\ (nwrites > 0 => DeviceWiper = wiperpos))
    /\ [][Returned_("fault") => calls' = calls + 1]_vars

C18_Witness ==
    /\ Returned_("fault") /\ curve = "knee" /\ nreads = 4 /\ nwrites = 3
    /\ DeviceWiper = 3 /\ op = "v"

\* C19: inside the loop, before the first read and after, and at the return
\* with any of the four outcomes, the power pin of the channel is high on
\* the device and in the cache; when the loop is entered the only device
\* transaction of the call after initialize_boards is the write of the pin.
C19_PowerOnBeforeRead ==
    /\ (pc = "loop" \/ (pc = "idle" /\ outcome \in Terminal)) =>
          /\ Bit(hw[CallBoard].iox, CallCh) = 1
          /\ Bit(boards[CallBoard].pinstate, CallCh) = 1
    /\ (pc = "loop" /\ i = 0) =>
          /\ nreads = 0
          /\ ntxn = initialize_txns(store) + 1

C19_Witness ==
    /\ Returned_("converged") /\ calls = 2 /\ nreads > 1
    /\ Bit(hw0[CallBoard].iox, CallCh) = 0
    /\ Bit(hw[CallBoard].iox, CallCh) = 1

(***************************************************************************)
(* Claims about the construction of a board                                *)
(***************************************************************************)
\* the n-th device operation of a board's construction: the power gate
\* zeroed, pin 0 high, then for channels 1..8 the sensor and the power pin,
\* then the 8 wipers (pot 1 wipers 1..4, pot 2 wipers 1..4)
ExpectedAt(n) ==
    IF n = 1 THEN Dev("zero_ioexpander", 0, 0)
    ELSE IF n = 2 THEN Dev("set_ioexpander", 0, 1)
    ELSE IF n <= 18
    THEN IF n % 2 = 1 THEN Dev("init_currsense", (n - 1) \div 2, 0)
                      ELSE Dev("set_ioexpander", (n - 2) \div 2, 1)
    ELSE Dev("set_pot", IF n <= 22 THEN 1 ELSE 2, ((n - 19) % 4) + 1)

\* C20: the device operations of a board's construction come in the order
\* power gate zeroed, pin 0 high, for channels 1..8 in ascending order the
\* sensor initialization and then the power pin, and after all 8 channels
\* the 8 wipers zeroed; the constructed board has 26 of them behind it and
\* is what BiasBoard.__init__ yields on the devices it found.
C20_ConstructionOrder ==
    /\ Len(ilog) <= 26
    /\ \A n \in 1 .. Len(ilog) : ilog[n] = ExpectedAt(n)
    /\ ipc = "done" =>
          /\ Len(ilog) = 26
          /\ iobj = BiasBoardInit(hw0[iaddr], CURRENT_DIVIDER_X10)
          /\ boards[iaddr] = iobj.bd /\ hw[iaddr] = iobj.hw

C20_Witness ==
    /\ ipc = "done" /\ iaddr = 18 /\ Len(boards) = 18
    /\ hw0 = UsedDevices
    /\ hw[18].rdac1 = <<0, 0, 0, 0>> /\ hw[18].iox = 511

(***************************************************************************)
(* Claims about the board controller                                       *)
(***************************************************************************)
\* a set_ioexpander or zero_ioexpander call has returned with its write made
PinWriteReturned ==
    /\ bpc = "idle" /\ bop.kind \in {"set_ioexpander", "zero_ioexpander"}
    /\ bop.res = "ok"

\* C21: after a set_ioexpander(pin, state) with pin in 0..16 or a
\* zero_ioexpander has returned, the cached pinstate of the board is a
\* 16-bit value and is the 16 bits the expander holds.
C21_ShadowIs16BitsWritten ==
    PinWriteReturned =>
        /\ boards[bop.b].pinstate \in 0 .. 65535
        /\ boards[bop.b].pinstate = hw[bop.b].iox

\* the cached wipers of the two boards are the values last set
CacheIsLastSet ==
    \A b \in BusBoards : \A pot \in {1, 2} : \A w \in 1 .. 4 :
        get_pot(boards[b], pot, w) = lastpot[b][pot][w]

\* a step changes the cached wipers only as the set_pot in progress says
OnlyAddressedWiper ==
    \A b \in BusBoards : \A pot \in {1, 2} : \A w \in 1 .. 4 :
        get_pot(boards'[b], pot, w) # get_pot(boards[b], pot, w) =>
            /\ bpc = "open" /\ bop.kind = "set_pot"
            /\ bop.b = b /\ bop.x = pot /\ bop.y = w
            /\ get_pot(boards'[b], pot, w) = bop.z

\* get_pot has handed back a value
GetPotReturned == bop.kind = "get_pot" /\ bop.res = "ok"

\* C22: between operations every cached wiper is the value of the last
\* set_pot on it (0 if none since construction), get_pot hands back that
\* value and issues no transaction, opens no gate and no handle, and a step
\* changes no cached wiper but the one a set_pot addresses.
C22_GetPotIsLastSet ==
    /\ [](bpc = "idle" => CacheIsLastSet)
    /\ [](GetPotReturned =>
              /\ bop.rv = lastpot[bop.b][bop.x][bop.y]
              /\ bused = 0 /\ bpc = "idle")
    /\ [][bop'.kind = "get_pot" /\ bcount' = bcount + 1 =>
              gate' = gate /\ hw' = hw /\ bfds' = bfds /\ boards' = boards]_vars
    /\ [][OnlyAddressedWiper]_vars

C22_Witness ==
    /\ GetPotReturned /\ bop.b = 2 /\ bop.x = 2 /\ bop.y = 1 /\ bop.rv = 200
    /\ boards[2].pot2 = <<200, 0, 0, 0>> /\ boards[2].pot1 = <<0, 0, 0, 0>>
    /\ bcount = 2

\* the arguments the contract of set_pot / set_ioexpander allows
ValidArgs(o) ==
    IF o.kind = "set_pot"
    THEN o.x \in {1, 2} /\ o.y \in 1 .. 4 /\ o.z \in 0 .. 255
    ELSE o.x \in 0 .. 16

Checked(o) == o.kind \in {"set_pot", "set_ioexpander"}

RawReads == {"getCurrent_raw", "getBusVoltage_raw", "getShuntVoltage_raw"}

\* one sample of a sensor read has been taken and its window closed
SampleTaken == bpc = "idle" /\ bop.kind \in RawReads /\ bop.res = "ok"

\* C24: a sample of the current, the bus voltage or the shunt voltage is
\* two transactions inside one window: the write of the calibration
\* register, then the read of the raw register.
C24_CalibrationBeforeRead ==
    SampleTaken =>
        /\ bused = 2
        /\ Txn(bop.kind, 1) = [rw |-> "write", reg |-> "CALIBRATION"]
        /\ Txn(bop.kind, 2).rw = "read"
        /\ bop.b \notin gate

(***************************************************************************)
(* Claims about the loop's wiper position                                  *)
(***************************************************************************)
\* the call started with the cached wiper of its channel equal to the one in
\* the device
CacheMatchedAtStart == wiper0 = dev0

\* the loop is about to read the sensor, or a call that ran the loop has
\* returned
AtReadOrReturn == pc = "loop" \/ (pc = "idle" /\ outcome \in Terminal)

\* C26: in a call with a non-zero target that started with the cache equal
\* to the device, at every sensor read of the loop and at the return the
\* loop's wiper position equals the board's cached wiper of the channel and
\* the wiper last written to the channel's potentiometer.
C26_WiperPositionInSync ==
    (AtReadOrReturn /\ CacheMatchedAtStart) =>
        /\ wiperpos = CachedWiper
        /\ wiperpos = DeviceWiper

\* a second call started from a non-zero wiper, moved it and converged
C26_Witness ==
    /\ Returned_("converged") /\ calls = 2
    /\ CacheMatchedAtStart /\ wiper0 > 0 /\ wiperpos # wiper0 /\ nwrites > 0
    /\ wiperpos = CachedWiper /\ wiperpos = DeviceWiper

(***************************************************************************)
(* Claims about two callers                                                *)
(***************************************************************************)
InWindow(p) == callers[p].pc \in {"open", "sent"}

\* C25: nothing keeps a caller from opening its gate while the other
\* caller is inside its window: whenever one caller is between __start()
\* and __end() and the other has an operation left to start, that
\* operation's __start() can run, and with both inside their windows the
\* gates of both boards are connected.
C25_NoMutualExclusion ==
    \A p \in Callers : \A q \in Callers \ {p} :
        /\ (InWindow(p) /\ callers[q].pc = "idle" /\ callers[q].n < MaxTwoOps) =>
              ENABLED (\E o \in TwoOps(q) : TwoBegin(q, o))
        /\ (InWindow(p) /\ InWindow(q)) => gate = {1, 2}

\* caller 2 opened its gate while caller 1 was inside its window, and caller
\* 1's write to the wiper of board 1 then reached board 2 as well
C25_Witness ==
    /\ overlap /\ gate = {1, 2}
    /\ callers[1].pc = "sent" /\ callers[1].op.kind = "set_pot" /\ callers[1].op.z = 200
    /\ callers[2].pc = "open" /\ callers[2].op.kind = "set_ioexpander"
    /\ hw[1].rdac1[1] = 200 /\ hw[2].rdac1[1] = 200
    /\ boards[2].pot1[1] = 0

====
